---- MODULE Spec2Model ----
(***************************************************************************)
(* Model of the parsing core of src/app.py (extract_marksheet_blocks):     *)
(* the field extractor, the block segmenter with its row reconstructor,    *)
(* and the row grammar parse_row_to_columns.                               *)
(*                                                                         *)
(* Text is modelled at character level: a Python str is a sequence of      *)
(* one-character strings, a page is a sequence of lines, a document a      *)
(* sequence of pages.  None is the empty sequence <<>> of an option type   *)
(* whose values are <<>> (None) and <<x>> (the value x).                   *)
(***************************************************************************)
EXTENDS Integers, Sequences, FiniteSets, TLC

(***************************************************************************)
(* Characters and the str methods the code uses.                           *)
(***************************************************************************)
UpperSeq ==
  <<"A","B","C","D","E","F","G","H","I","J","K","L","M",
    "N","O","P","Q","R","S","T","U","V","W","X","Y","Z">>

LowerSeq ==
  <<"a","b","c","d","e","f","g","h","i","j","k","l","m",
    "n","o","p","q","r","s","t","u","v","w","x","y","z">>

UpperSet == {UpperSeq[k] : k \in DOMAIN UpperSeq}

LowerSet == {LowerSeq[k] : k \in DOMAIN LowerSeq}

DigitSet == {"0","1","2","3","4","5","6","7","8","9"}

\* \s of the re module, restricted to the characters that occur in the inputs
SpaceSet == {" ", "\t", "\n"}

NL == "\n"

LowerOf ==
  [c \in UpperSet |-> LowerSeq[CHOOSE k \in DOMAIN UpperSeq : UpperSeq[k] = c]]

UpperOf ==
  [c \in LowerSet |-> UpperSeq[CHOOSE k \in DOMAIN LowerSeq : LowerSeq[k] = c]]

lower_char(c) == IF c \in UpperSet THEN LowerOf[c] ELSE c

upper_char(c) == IF c \in LowerSet THEN UpperOf[c] ELSE c

\* str.lower()
lower(s) == [k \in 1..Len(s) |-> lower_char(s[k])]

\* str.capitalize(): first character upper-cased, the rest lower-cased
capitalize(s) ==
  [k \in 1..Len(s) |-> IF k = 1 THEN upper_char(s[k]) ELSE lower_char(s[k])]

IsAlpha(c) == c \in UpperSet \/ c \in LowerSet

IsDigit(c) == c \in DigitSet

IsSpace(c) == c \in SpaceSet

\* \w of the re module
IsWordChar(c) == IsAlpha(c) \/ IsDigit(c) \/ c = "_"

Min(S) == CHOOSE x \in S : \A y \in S : x <= y

Max(S) == CHOOSE x \in S : \A y \in S : y <= x

\* str.strip()
strip(s) ==
  LET ns == {k \in 1..Len(s) : ~IsSpace(s[k])}
  IN  IF ns = {} THEN <<>> ELSE SubSeq(s, Min(ns), Max(ns))

\* str.rstrip(":")
rstrip_colon(s) ==
  LET ns == {k \in 1..Len(s) : s[k] # ":"}
  IN  IF ns = {} THEN <<>> ELSE SubSeq(s, 1, Max(ns))

\* haystack[i..] starts with needle (1-based i)
StartsAt(s, i, w) ==
  /\ i >= 1
  /\ i + Len(w) - 1 <= Len(s)
  /\ \A k \in 1..Len(w) : s[i + k - 1] = w[k]

\* StartsAt under re.IGNORECASE, for a lower-case needle
StartsAtI(s, i, w) ==
  /\ i >= 1
  /\ i + Len(w) - 1 <= Len(s)
  /\ \A k \in 1..Len(w) : lower_char(s[i + k - 1]) = w[k]

\* str.startswith
startswith(s, w) == StartsAt(s, 1, w)

\* needle in haystack
Contains(s, w) == \E i \in 1..(Len(s) - Len(w) + 1) : StartsAt(s, i, w)

\* index of the first occurrence of w in s (0 when absent): str.find + 1
Find(s, w) ==
  LET at == {i \in 1..(Len(s) - Len(w) + 1) : StartsAt(s, i, w)}
  IN  IF at = {} THEN 0 ELSE Min(at)

\* first index >= i whose character is not whitespace (Len(s)+1 when none):
\* where a greedy \s* started at i stops
RECURSIVE SkipWs(_, _)
SkipWs(s, i) ==
  IF i <= Len(s) /\ IsSpace(s[i]) THEN SkipWs(s, i + 1) ELSE i

\* first index >= i whose character is not a digit: where a greedy \d* stops
RECURSIVE SkipDigits(_, _)
SkipDigits(s, i) ==
  IF i <= Len(s) /\ IsDigit(s[i]) THEN SkipDigits(s, i + 1) ELSE i

\* first index >= i whose character is not a letter: where [A-Za-z]* stops
RECURSIVE SkipAlpha(_, _)
SkipAlpha(s, i) ==
  IF i <= Len(s) /\ IsAlpha(s[i]) THEN SkipAlpha(s, i + 1) ELSE i

\* first index >= i holding a newline (Len(s)+1 when none): where .* stops
LineEnd(s, i) ==
  LET ns == {k \in i..Len(s) : s[k] = NL}
  IN  IF ns = {} THEN Len(s) + 1 ELSE Min(ns)

\* str.split() on whitespace runs: the words of s
RECURSIVE Words(_)
Words(s) ==
  LET b == SkipWs(s, 1)
  IN  IF b > Len(s) THEN <<>>
      ELSE LET sp == {k \in b..Len(s) : IsSpace(s[k])}
               e  == IF sp = {} THEN Len(s) + 1 ELSE Min(sp)
           IN  <<SubSeq(s, b, e - 1)>> \o Words(SubSeq(s, e, Len(s)))

\* " ".join(ws)
RECURSIVE JoinSp(_)
JoinSp(ws) ==
  IF ws = <<>> THEN <<>>
  ELSE IF Len(ws) = 1 THEN ws[1]
  ELSE ws[1] \o <<" ">> \o JoinSp(Tail(ws))

\* "\n".join(lines)
RECURSIVE JoinNL(_)
JoinNL(ls) ==
  IF ls = <<>> THEN <<>>
  ELSE IF Len(ls) = 1 THEN ls[1]
  ELSE ls[1] \o <<NL>> \o JoinNL(Tail(ls))

\* re.sub(r"\s+", " ", s): every whitespace run becomes one space.  A
\* character is kept when it is no whitespace or when it opens a whitespace
\* run, and the kept whitespace characters are written as a space.
sub_ws(s) ==
  LET marked == [k \in 1..Len(s) |-> <<s[k], k = 1 \/ ~IsSpace(s[k - 1])>>]
      kept   == SelectSeq(marked, LAMBDA m : ~IsSpace(m[1]) \/ m[2])
  IN  [k \in 1..Len(kept) |-> IF IsSpace(kept[k][1]) THEN " " ELSE kept[k][1]]

\* str.split(" ") of a text without leading, trailing or doubled spaces
RECURSIVE SplitSp(_)
SplitSp(s) ==
  LET sp == {k \in 1..Len(s) : s[k] = " "}
  IN  IF s = <<>> THEN <<>>
      ELSE IF sp = {} THEN <<s>>
      ELSE <<SubSeq(s, 1, Min(sp) - 1)>> \o SplitSp(SubSeq(s, Min(sp) + 1, Len(s)))

AllDigits(w) == Len(w) >= 1 /\ \A k \in 1..Len(w) : IsDigit(w[k])


(***************************************************************************)
(* The row grammar: parse_row_to_columns.                                  *)
(*                                                                         *)
(* The pattern is matched against txt, in which whitespace runs are single *)
(* spaces and the ends are stripped, and every group of the pattern is     *)
(* delimited by \s+ (or the anchors), so each of Code, Type, Internal,     *)
(* External, Back Paper and Grade matches exactly one space-separated word *)
(* of txt and the lazy Name group matches the words between Code and the   *)
(* first Type word from which the rest of the pattern matches.             *)
(***************************************************************************)
\* (Theory|Practical|CA|Lab|Project|Workshop|Training) under re.IGNORECASE
TypeWords ==
  { <<"t","h","e","o","r","y">>,
    <<"p","r","a","c","t","i","c","a","l">>,
    <<"c","a">>,
    <<"l","a","b">>,
    <<"p","r","o","j","e","c","t">>,
    <<"w","o","r","k","s","h","o","p">>,
    <<"t","r","a","i","n","i","n","g">> }

Dashes == <<"-","-">>

\* [A-Z]{3}\d{3} under re.IGNORECASE: the letters match in either case
IsCodeWord(w) ==
  /\ Len(w) = 6
  /\ \A k \in 1..3 : IsAlpha(w[k])
  /\ \A k \in 4..6 : IsDigit(w[k])

IsTypeWord(w) == lower(w) \in TypeWords

\* (\d+|--) and (--|\d+)
IsMarkWord(w) == AllDigits(w) \/ w = Dashes

\* the Grade group widened to accept "--" as External and Back Paper do
IsGradeWord_dashes(w) ==
  LET n == IF Len(w) >= 1 /\ w[Len(w)] = "+" THEN Len(w) - 1 ELSE Len(w)
  IN  w = Dashes \/ (n \in 1..2 /\ \A k \in 1..n : IsAlpha(w[k]))

\* [A-Za-z]{1,2}\+?
IsGradeWord(w) ==
  LET n == IF Len(w) >= 1 /\ w[Len(w)] = "+" THEN Len(w) - 1 ELSE Len(w)
  IN  n \in 1..2 /\ \A k \in 1..n : IsAlpha(w[k])

\* The three optional groups (?:\s+(\d+|--))?(?:\s+(--|\d+))?(?:\s+([A-Za-z]{1,2}\+?))?\s*$
\* matched greedily against the words r that follow Internal: each group takes
\* the next word when it can.  ok tells whether the end anchor is reached.
OptionalGroups(r) ==
  LET ext   == IF Len(r) >= 1 /\ IsMarkWord(r[1]) THEN <<r[1]>> ELSE <<>>
      i1    == 1 + Len(ext)
      bp    == IF Len(r) >= i1 /\ IsMarkWord(r[i1]) THEN <<r[i1]>> ELSE <<>>
      i2    == i1 + Len(bp)
      grade == IF Len(r) >= i2 /\ IsGradeWord(r[i2]) THEN <<r[i2]>> ELSE <<>>
      i3    == i2 + Len(grade)
  IN  [ok |-> i3 = Len(r) + 1, external |-> ext, back_paper |-> bp, grade |-> grade]

\* x or "--"
OrDashes(opt) == IF opt = <<>> \/ opt[1] = <<>> THEN Dashes ELSE opt[1]

\* parse_row_to_columns(raw): <<>> for None, else <<the list of 7 columns>>
parse_row_to_columns(raw) ==
  LET txt == sub_ws(strip(raw))
      t   == SplitSp(txt)
      n   == Len(t)
      \* positions of the Type word at which the whole pattern matches
      ks  == {k \in 3..(n - 1) :
                /\ IsCodeWord(t[1])
                /\ IsTypeWord(t[k])
                /\ AllDigits(t[k + 1])
                /\ OptionalGroups(SubSeq(t, k + 2, n)).ok}
  IN  IF ks = {} THEN <<>>
      ELSE LET k == Min(ks)      \* (.+?) is lazy: the shortest Name wins
               g == OptionalGroups(SubSeq(t, k + 2, n))
           IN  << << t[1],
                     strip(JoinSp(SubSeq(t, 2, k - 1))),
                     capitalize(t[k]),
                     t[k + 1],
                     OrDashes(g.external),
                     OrDashes(g.back_paper),
                     OrDashes(g.grade) >> >>

(***************************************************************************)
(* The line patterns of the segmenter.  Every pattern is compiled with     *)
(* re.IGNORECASE, so literals are compared on the lower-cased text; the    *)
(* captured groups are taken from the original text.                       *)
(***************************************************************************)
\* A run of literals with \s* after each of them, matched at index i of the
\* text s under re.IGNORECASE: the index after the last \s*, or 0 when it fails.
RECURSIVE MatchLits(_, _, _)
MatchLits(s, i, lits) ==
  IF lits = <<>> THEN i
  ELSE IF StartsAtI(s, i, Head(lits))
       THEN MatchLits(s, SkipWs(s, i + Len(Head(lits))), Tail(lits))
       ELSE 0

\* header_regex.search(l):
\* ^\s*Code\s+Name\s+Type\s+Internal\s+External\s+Back\s+Paper\s+Grade\s*$
header_regex(l) ==
  Words(lower(l)) =
    << <<"c","o","d","e">>, <<"n","a","m","e">>, <<"t","y","p","e">>,
       <<"i","n","t","e","r","n","a","l">>, <<"e","x","t","e","r","n","a","l">>,
       <<"b","a","c","k">>, <<"p","a","p","e","r">>, <<"g","r","a","d","e">> >>

\* heading_result_regex.search(l): ^(?:Minor|Major)\s*Result
heading_result_regex(l) ==
  LET s == lower(l)
  IN  /\ \/ startswith(s, <<"m","i","n","o","r">>)
         \/ startswith(s, <<"m","a","j","o","r">>)
      /\ StartsAt(s, SkipWs(s, 6), <<"r","e","s","u","l","t">>)

\* code_start_regex.search(l): ^[A-Z]{3}\d{3}\b
code_start_regex(l) ==
  /\ Len(l) >= 6
  /\ IsCodeWord(SubSeq(l, 1, 6))
  /\ (Len(l) = 6 \/ ~IsWordChar(l[7]))

\* re_semester.search(l): ^\s*Semester\s*:\s*(\d+); <<>> or <<group(1)>>
re_semester(l) ==
  LET c == MatchLits(l, SkipWs(l, 1), << <<"s","e","m","e","s","t","e","r">>, <<":">> >>)
      e == SkipDigits(l, c)
  IN  IF c > 0 /\ e > c THEN <<SubSeq(l, c, e - 1)>> ELSE <<>>

\* Where pattern.search(text) may find a match of a pattern that starts with
\* a literal whose first character is c0 (lower case): the indices of text
\* holding c0 in either case.  search returns the match at the least of them
\* at which the pattern matches.
Candidates(text, c0) == {i \in 1..Len(text) : lower_char(text[i]) = c0}

\* ... (Even|Odd)
CapEvenOdd(text, c) ==
  IF c = 0 THEN <<>>
  ELSE IF StartsAtI(text, c, <<"e","v","e","n">>) THEN <<SubSeq(text, c, c + 3)>>
  ELSE IF StartsAtI(text, c, <<"o","d","d">>) THEN <<SubSeq(text, c, c + 2)>>
  ELSE <<>>

\* ... (\d+) and ([0-9]+)
CapDigits(text, c) ==
  IF c > 0 /\ SkipDigits(text, c) > c
  THEN <<SubSeq(text, c, SkipDigits(text, c) - 1)>> ELSE <<>>

\* ... ([A-Za-z]+)
CapAlpha(text, c) ==
  IF c > 0 /\ SkipAlpha(text, c) > c
  THEN <<SubSeq(text, c, SkipAlpha(text, c) - 1)>> ELSE <<>>

\* ... ([0-9]+(?:\.[0-9]+)?)
CapNumber(text, c) ==
  LET e == SkipDigits(text, c)
      f == SkipDigits(text, e + 1)
  IN  IF c = 0 \/ e = c THEN <<>>
      ELSE IF e <= Len(text) /\ text[e] = "." /\ f > e + 1
           THEN <<SubSeq(text, c, f - 1)>>
           ELSE <<SubSeq(text, c, e - 1)>>

\* ... :\s*(.+) where b is the index after the colon and c the index at which
\* the greedy \s* stops.  "." matches no newline.  When \s* ran to the end of
\* the text it gives back its last characters until (.+) finds a character
\* that is not a newline; what (.+) then holds is whitespace only.
CapRest(text, b, c) ==
  IF c = 0 THEN <<>>
  ELSE IF c <= Len(text) THEN <<SubSeq(text, c, LineEnd(text, c) - 1)>>
  ELSE IF \E j \in b..Len(text) : text[j] # NL
       THEN LET j == Max({x \in b..Len(text) : text[x] # NL})
            IN  <<SubSeq(text, j, LineEnd(text, j) - 1)>>
       ELSE <<>>


(***************************************************************************)
(* The label patterns: each is a run of literals separated by \s*, a colon *)
(* and one capture group.  search_X(text) is X.search(text): <<>> when     *)
(* nothing matches, else <<group(1)>> of the leftmost match.               *)
(***************************************************************************)
\* Literals \s* : matched at index i of the text s: the index after
\* the colon, or 0
AfterColon(s, i, lits) ==
  LET p == MatchLits(s, i, lits)
  IN  IF p > 0 /\ p <= Len(s) /\ s[p] = ":" THEN p + 1 ELSE 0

\* Lits\s*:\s*(.+)
SearchRest(text, lits) ==
  LET At(i) == LET b == AfterColon(text, i, lits)
               IN  IF b = 0 THEN <<>> ELSE CapRest(text, b, SkipWs(text, b))
      hits == {i \in Candidates(text, lits[1][1]) : At(i) # <<>>}
  IN  IF hits = {} THEN <<>> ELSE At(Min(hits))

\* Lits\s*:\s*(\d+)
SearchDigits(text, lits) ==
  LET At(i) == LET b == AfterColon(text, i, lits)
               IN  IF b = 0 THEN <<>> ELSE CapDigits(text, SkipWs(text, b))
      hits == {i \in Candidates(text, lits[1][1]) : At(i) # <<>>}
  IN  IF hits = {} THEN <<>> ELSE At(Min(hits))

\* Even\s*/\s*Odd\s*:\s*(Even|Odd)
search_even_odd(text) ==
  LET At(i) == LET b == AfterColon(text, i, << <<"e","v","e","n">>, <<"/">>, <<"o","d","d">> >>)
               IN  IF b = 0 THEN <<>> ELSE CapEvenOdd(text, SkipWs(text, b))
      hits == {i \in Candidates(text, "e") : At(i) # <<>>}
  IN  IF hits = {} THEN <<>> ELSE At(Min(hits))

\* SGPA\s*:\s*([0-9]+(?:\.[0-9]+)?)
search_sgpa(text) ==
  LET At(i) == LET b == AfterColon(text, i, << <<"s","g","p","a">> >>)
               IN  IF b = 0 THEN <<>> ELSE CapNumber(text, SkipWs(text, b))
      hits == {i \in Candidates(text, "s") : At(i) # <<>>}
  IN  IF hits = {} THEN <<>> ELSE At(Min(hits))

\* Total\s*Marks\s*Obt\.?\s*:\s*([0-9]+)
search_total_marks(text) ==
  LET At(i) == LET q == MatchLits(text, i, << <<"t","o","t","a","l">>, <<"m","a","r","k","s">> >>)
                   r == IF q > 0 /\ StartsAtI(text, q, <<"o","b","t">>) THEN q + 3 ELSE 0
                   d == IF r > 0 /\ r <= Len(text) /\ text[r] = "." THEN r + 1 ELSE r
                   b == IF d > 0 THEN AfterColon(text, SkipWs(text, d), <<>>) ELSE 0
               IN  IF b = 0 THEN <<>> ELSE CapDigits(text, SkipWs(text, b))
      hits == {i \in Candidates(text, "t") : At(i) # <<>>}
  IN  IF hits = {} THEN <<>> ELSE At(Min(hits))

\* Result\s*Status\s*:\s*(.+)
search_result_status(text) ==
  SearchRest(text, << <<"r","e","s","u","l","t">>, <<"s","t","a","t","u","s">> >>)

\* Gender\s*:\s*([A-Za-z]+)
search_gender(text) ==
  LET At(i) == LET b == AfterColon(text, i, << <<"g","e","n","d","e","r">> >>)
               IN  IF b = 0 THEN <<>> ELSE CapAlpha(text, SkipWs(text, b))
      hits == {i \in Candidates(text, "g") : At(i) # <<>>}
  IN  IF hits = {} THEN <<>> ELSE At(Min(hits))

\* the end anchor $: the end of the text, or just before a final newline
AtEnd(text, e) == e = Len(text) + 1 \/ (e = Len(text) /\ text[e] = NL)

\* Name\s*:\s*(.+?)(?=\s*Hindi\s*Name\s*:|$)
\* The greedy \s* before the group stops at c and gives characters back (cs < c)
\* only when no match starts at c; the lazy group ends at the first index e at
\* which the lookahead holds and never crosses a newline.
search_name(text) ==
  LET Look(e) == \/ AfterColon(text, SkipWs(text, e), << <<"h","i","n","d","i">>, <<"n","a","m","e">> >>) > 0
                 \/ AtEnd(text, e)
      Ends(cs) == {e \in (cs + 1)..LineEnd(text, cs) : Look(e)}
      At(i) == LET b  == AfterColon(text, i, << <<"n","a","m","e">> >>)
                   c  == SkipWs(text, b)
                   ok == {cs \in b..c : cs <= Len(text) /\ text[cs] # NL /\ Ends(cs) # {}}
               IN  IF b = 0 \/ ok = {} THEN <<>>
                   ELSE <<SubSeq(text, Max(ok), Min(Ends(Max(ok))) - 1)>>
      hits == {i \in Candidates(text, "n") : At(i) # <<>>}
  IN  IF hits = {} THEN <<>> ELSE At(Min(hits))

(***************************************************************************)
(* The field extractor.                                                    *)
(***************************************************************************)
L_InstituteCodeName ==
  <<"I","n","s","t","i","t","u","t","e"," ","C","o","d","e"," ","&"," ","N","a","m","e">>

L_CourseCodeName ==
  <<"C","o","u","r","s","e"," ","C","o","d","e"," ","&"," ","N","a","m","e">>

L_BranchCodeName ==
  <<"B","r","a","n","c","h"," ","C","o","d","e"," ","&"," ","N","a","m","e">>

L_RollNo ==
  <<"R","o","l","l","N","o">>

L_EnrollmentNo ==
  <<"E","n","r","o","l","l","m","e","n","t","N","o">>

L_Name ==
  <<"N","a","m","e">>

L_HindiName ==
  <<"H","i","n","d","i"," ","N","a","m","e">>

L_FathersName ==
  <<"F","a","t","h","e","r","'","s"," ","N","a","m","e">>

L_Gender ==
  <<"G","e","n","d","e","r">>

L_Session ==
  <<"S","e","s","s","i","o","n">>

L_Semester ==
  <<"S","e","m","e","s","t","e","r">>

L_EvenOdd ==
  <<"E","v","e","n","/","O","d","d">>

L_SGPA ==
  <<"S","G","P","A">>

L_TotalMarksObt ==
  <<"T","o","t","a","l"," ","M","a","r","k","s"," ","O","b","t",".">>

L_ResultStatus ==
  <<"R","e","s","u","l","t"," ","S","t","a","t","u","s">>

L_TotalMarksObt_ ==
  <<"T","o","t","a","l"," ","M","a","r","k","s"," ","O","b","t","."," ",":">>

L_SGPA_ ==
  <<"S","G","P","A"," ",":">>

target_fields_order ==
  << L_InstituteCodeName, L_CourseCodeName, L_BranchCodeName, L_RollNo,
     L_EnrollmentNo, L_Name, L_HindiName, L_FathersName, L_Gender, L_Session,
     L_Semester, L_EvenOdd, L_SGPA, L_TotalMarksObt, L_ResultStatus >>

\* the keys of the dict patterns, in insertion order (Father's Name has none)
pattern_labels ==
  << L_InstituteCodeName, L_CourseCodeName, L_BranchCodeName, L_RollNo,
     L_EnrollmentNo, L_Name, L_HindiName, L_Gender, L_Session,
     L_Semester, L_EvenOdd, L_SGPA, L_TotalMarksObt, L_ResultStatus >>

\* patterns[label].search(text)
patterns(label, text) ==
  CASE label = L_InstituteCodeName ->
         SearchRest(text, << <<"i","n","s","t","i","t","u","t","e">>, <<"c","o","d","e">>,
                             <<"&">>, <<"n","a","m","e">> >>)
    [] label = L_CourseCodeName ->
         SearchRest(text, << <<"c","o","u","r","s","e">>, <<"c","o","d","e">>,
                             <<"&">>, <<"n","a","m","e">> >>)
    [] label = L_BranchCodeName ->
         SearchRest(text, << <<"b","r","a","n","c","h">>, <<"c","o","d","e">>,
                             <<"&">>, <<"n","a","m","e">> >>)
    [] label = L_RollNo ->
         SearchDigits(text, << <<"r","o","l","l">>, <<"n","o">> >>)
    [] label = L_EnrollmentNo ->
         SearchRest(text, << <<"e","n","r","o","l","l","m","e","n","t">>, <<"n","o">> >>)
    [] label = L_Name -> search_name(text)
    [] label = L_HindiName ->
         SearchRest(text, << <<"h","i","n","d","i">>, <<"n","a","m","e">> >>)
    [] label = L_Gender -> search_gender(text)
    [] label = L_Session ->
         SearchRest(text, << <<"s","e","s","s","i","o","n">> >>)
    [] label = L_Semester ->
         SearchDigits(text, << <<"s","e","m","e","s","t","e","r">> >>)
    [] label = L_EvenOdd -> search_even_odd(text)
    [] label = L_SGPA -> search_sgpa(text)
    [] label = L_TotalMarksObt -> search_total_marks(text)
    [] label = L_ResultStatus -> search_result_status(text)
    [] OTHER -> <<>>

\* found_map[k] = v
Put(m, k, v) == [x \in (DOMAIN m) \cup {k} |-> IF x = k THEN v ELSE m[x]]

\* found_map.get(k, "")
Get(m, k) == IF k \in DOMAIN m THEN m[k] ELSE <<>>

\* the dict {}
EmptyMap == [x \in {} |-> <<>>]

\* the first pass without the test "original not in found_map": the value is
\* recorded under the first target the key starts with, recorded or not
first_pass_line_overwriting(fm, raw) ==
  LET line == strip(raw)
      c    == Find(line, <<":">>)
  IN  IF line = <<>> \/ c = 0 THEN fm
      ELSE LET key   == strip(SubSeq(line, 1, c - 1))
               value == strip(SubSeq(line, c + 1, Len(line)))
               lkey  == lower(key)
               hits  == {k \in DOMAIN target_fields_order :
                           startswith(lkey, lower(target_fields_order[k]))}
           IN  IF hits = {} THEN fm
               ELSE Put(fm, target_fields_order[Min(hits)], value)

\* One iteration of the first pass: split the line at its first colon and
\* record the value under the first target the key starts with that is not
\* recorded yet.
first_pass_line(fm, raw) ==
  LET line == strip(raw)
      c    == Find(line, <<":">>)
  IN  IF line = <<>> \/ c = 0 THEN fm
      ELSE LET key   == strip(SubSeq(line, 1, c - 1))
               value == strip(SubSeq(line, c + 1, Len(line)))
               lkey  == lower(key)
               hits  == {k \in DOMAIN target_fields_order :
                           /\ startswith(lkey, lower(target_fields_order[k]))
                           /\ target_fields_order[k] \notin DOMAIN fm}
           IN  IF hits = {} THEN fm
               ELSE Put(fm, target_fields_order[Min(hits)], value)

\* The second pass over patterns.items(), from the k-th label on: a label with
\* a non-empty value is skipped, else the value is group(1).strip() of the
\* first match in full_text, when there is one.
RECURSIVE second_pass(_, _, _)
second_pass(fm, full_text, k) ==
  IF k > Len(pattern_labels) THEN fm
  ELSE LET label == pattern_labels[k]
           m     == patterns(label, full_text)
       IN  IF (label \in DOMAIN fm /\ fm[label] # <<>>) \/ m = <<>>
           THEN second_pass(fm, full_text, k + 1)
           ELSE second_pass(Put(fm, label, strip(m[1])), full_text, k + 1)

\* roll_val without the truncation of lines 120-123
roll_post_whole(fm) == Get(fm, L_RollNo)

\* roll_val: re.match(r"\d+", roll_val) keeps the leading digits when there are any
roll_post(fm) ==
  LET v == Get(fm, L_RollNo)
      e == SkipDigits(v, 1)
  IN  IF e > 1 THEN SubSeq(v, 1, e - 1) ELSE v

\* name_val: cut at the word 'Hindi'
name_post(fm) ==
  LET v == Get(fm, L_Name)
      h == Find(v, <<"H","i","n","d","i">>)
  IN  IF h > 0 THEN rstrip_colon(strip(SubSeq(v, 1, h - 1))) ELSE v

\* add without the always flag: an empty value is never appended
add_nonempty(gi, label, value, always) ==
  IF value # <<>> THEN Append(gi, <<label, value>>) ELSE gi

\* add(label, value, always) on the list gi
add(gi, label, value, always) ==
  IF always \/ value # <<>> THEN Append(gi, <<label, value>>) ELSE gi

\* the list with Father's Name, Session and Result Status kept, in the order of
\* target_fields_order
build_general_info_all(fm) ==
  LET g1  == add(<<>>, L_InstituteCodeName, Get(fm, L_InstituteCodeName), FALSE)
      g2  == add(g1, L_CourseCodeName, Get(fm, L_CourseCodeName), FALSE)
      g3  == add(g2, L_BranchCodeName, Get(fm, L_BranchCodeName), FALSE)
      g4  == add(g3, L_RollNo, roll_post(fm), FALSE)
      g5  == add(g4, L_EnrollmentNo, Get(fm, L_EnrollmentNo), FALSE)
      g6  == add(g5, L_Name, name_post(fm), FALSE)
      g7  == add(g6, L_HindiName, Get(fm, L_HindiName), FALSE)
      g7a == add(g7, L_FathersName, Get(fm, L_FathersName), FALSE)
      g8  == add(g7a, L_Gender, Get(fm, L_Gender), FALSE)
      g8a == add(g8, L_Session, Get(fm, L_Session), FALSE)
      g9  == add(g8a, L_Semester, Get(fm, L_Semester), FALSE)
      g10 == add(g9, L_EvenOdd, Get(fm, L_EvenOdd), FALSE)
      g11 == add(g10, L_TotalMarksObt_, Get(fm, L_TotalMarksObt), TRUE)
      g12 == add(g11, L_SGPA_, Get(fm, L_SGPA), TRUE)
  IN  add(g12, L_ResultStatus, Get(fm, L_ResultStatus), FALSE)

\* the final ordered list built from found_map
build_general_info(fm) ==
  LET g1  == add(<<>>, L_InstituteCodeName, Get(fm, L_InstituteCodeName), FALSE)
      g2  == add(g1, L_CourseCodeName, Get(fm, L_CourseCodeName), FALSE)
      g3  == add(g2, L_BranchCodeName, Get(fm, L_BranchCodeName), FALSE)
      g4  == add(g3, L_RollNo, roll_post(fm), FALSE)
      g5  == add(g4, L_EnrollmentNo, Get(fm, L_EnrollmentNo), FALSE)
      g6  == add(g5, L_Name, name_post(fm), FALSE)
      g7  == add(g6, L_HindiName, Get(fm, L_HindiName), FALSE)
      g8  == add(g7, L_Gender, Get(fm, L_Gender), FALSE)
      g9  == add(g8, L_Semester, Get(fm, L_Semester), FALSE)
      g10 == add(g9, L_EvenOdd, Get(fm, L_EvenOdd), FALSE)
      g11 == add(g10, L_TotalMarksObt_, Get(fm, L_TotalMarksObt), TRUE)
  IN  add(g11, L_SGPA_, Get(fm, L_SGPA), TRUE)

\* the whole first pass, from the k-th line on
RECURSIVE first_pass(_, _, _)
first_pass(fm, ls, k) ==
  IF k > Len(ls) THEN fm ELSE first_pass(first_pass_line(fm, ls[k]), ls, k + 1)

\* general_info of extract_marksheet_blocks for the lines all_lines
general_info_of(ls) ==
  build_general_info(second_pass(first_pass(EmptyMap, ls, 1), JoinNL(ls), 1))


(***************************************************************************)
(* The block segmenter: the page loop and the three nested while loops of  *)
(* extract_marksheet_blocks.  pc names the loop whose condition is tested  *)
(* next: "page" (for page in pdf.pages), "outer" (while at line 242),      *)
(* "summary" (while at line 257), "rows" (while at line 264).              *)
(***************************************************************************)
VARIABLES
  lines,             \* the lines of the page being scanned
  page_no,           \* the number of pages read so far
  i,                 \* the line cursor into the current page (0-based)
  pc,                \* the loop in control
  current_summary,   \* None or the summary dict of the open block
  table_rows,        \* the rows collected after the last header
  buffer,            \* the pending text of a wrapped row
  marksheet_blocks,  \* the blocks emitted so far
  all_lines,         \* field extractor: the lines of all pages
  found_map,         \* field extractor: label -> value
  general_info,      \* field extractor: the ordered (label, value) list
  line_no,           \* field extractor: the lines handled by the first pass
  ipc,               \* field extractor: "first", "second", "build", "done"
  txt,               \* row grammar: the row text given to parse_row_to_columns
  cols,              \* row grammar: what parse_row_to_columns returned
  first_cols,        \* row grammar: what it returned for the original text
  round,             \* row grammar: the number of re-formattings done
  rpc                \* row grammar: "parse", "format", "done", "idle"

seg_vars == <<lines, page_no, i, pc, current_summary, table_rows, buffer, marksheet_blocks>>

info_vars == <<all_lines, found_map, general_info, line_no, ipc>>

row_vars == <<txt, cols, first_cols, round, rpc>>

vars == <<seg_vars, info_vars, row_vars>>

header_cols ==
  << <<"C","o","d","e">>, <<"N","a","m","e">>, <<"T","y","p","e">>,
     <<"I","n","t","e","r","n","a","l">>, <<"E","x","t","e","r","n","a","l">>,
     <<"B","a","c","k"," ","P","a","p","e","r">>, <<"G","r","a","d","e">> >>

SummaryKeys == {"Semester", "Even/Odd", "Total Marks Obt.", "Result Status", "SGPA"}

\* the fresh summary dict of a block whose Semester line captured sem
new_summary(sem) ==
  [key \in SummaryKeys |-> IF key = "Semester" THEN sem ELSE <<>>]

\* the capture of the summary fields from the line l2 (lines 310-322)
capture_summary(summary, l2) ==
  LET eo == search_even_odd(l2)
      tm == search_total_marks(l2)
      rs == search_result_status(l2)
      sg == search_sgpa(l2)
  IN  [key \in SummaryKeys |->
         CASE key = "Even/Odd" /\ eo # <<>> -> eo[1]
           [] key = "Total Marks Obt." /\ tm # <<>> -> tm[1]
           [] key = "Result Status" /\ rs # <<>> -> strip(rs[1])
           [] key = "SGPA" /\ sg # <<>> -> sg[1]
           [] OTHER -> summary[key]]

\* finalize_block without the test of line 224: a block is appended even when
\* rows is empty
finalize_block_unchecked(blocks, summary, rows) ==
  Append(blocks, [summary |-> summary, header |-> header_cols, rows |-> rows])

\* finalize_block(summary, table_rows) on the list blocks
finalize_block(blocks, summary, rows) ==
  IF rows = <<>> THEN blocks
  ELSE Append(blocks, [summary |-> summary, header |-> header_cols, rows |-> rows])

\* (lines[i] or "").strip()
line_at(k) == strip(lines[k + 1])

\* combine without the separating space: the two fragments are concatenated
combine_nospace(buf, l3) == IF buf # <<>> THEN strip(buf \o l3) ELSE l3

\* combined = (buffer + " " + l3).strip() if buffer else l3
combine(buf, l3) == IF buf # <<>> THEN strip(buf \o <<" ">> \o l3) ELSE l3

\* the flush of the trailing buffer (lines 298-301)
flush(rows, buf) ==
  IF buf # <<>> /\ parse_row_to_columns(buf) # <<>>
  THEN Append(rows, parse_row_to_columns(buf)[1])
  ELSE rows

LnSem1 ==
  <<"S","e","m","e","s","t","e","r"," ",":"," ","1">>

LnSem2 ==
  <<"s","e","m","e","s","t","e","r",":","2"," ","E","v","e","n","/","O","d","d"," ",":"," ","O","d","d">>

LnHeader ==
  <<"C","o","d","e"," ","N","a","m","e"," ","T","y","p","e"," ","I","n","t","e","r","n","a","l"," ","E","x","t","e","r","n","a","l"," ","B","a","c","k"," ","P","a","p","e","r"," ","G","r","a","d","e">>

LnRowTotal ==
  <<"M","E","C","3","0","1"," ","T","o","t","a","l"," ","Q","u","a","l","i","t","y"," ","M","g","m","t"," ","T","h","e","o","r","y"," ","4","0"," ","5","0"," ","-","-"," ","A">>

LnWrap1 ==
  <<"C","S","E","1","0","1"," ","D","a","t","a"," ","S","t","r","u","c","t">>

LnWrap2 ==
  <<"u","r","e","s"," ","T","h","e","o","r","y"," ","4","0"," ","5","0"," ","-","-"," ","A">>

LnRowLower ==
  <<"c","s","e","1","0","2"," ","M","a","t","h","s"," ","c","a"," ","3","0">>

LnMinor ==
  <<"M","i","n","o","r"," ","R","e","s","u","l","t">>

LnEven ==
  <<"E","v","e","n","/","O","d","d"," ",":"," ","E","v","e","n">>

LnOdd ==
  <<"E","v","e","n","/","O","d","d"," ",":"," ","O","d","d">>

LnSgpa ==
  <<"S","G","P","A"," ",":"," ","8",".","2","5">>

LnBlank == <<>>


(***************************************************************************)
(* Bounds of the model and the input documents.                            *)
(*                                                                         *)
(* The first page of a document is any sequence of at most MaxLines lines  *)
(* of SegLines, or a marksheet page of one of three shapes:                *)
(*   - a Semester line, at most MaxSumm summary lines, the header, a row;  *)
(*   - a Semester line, the header, at most MaxRows lines of a row window; *)
(*   - a Semester line, the header, at most MaxChainRows row lines, and a  *)
(*     tail: a stop line and what follows it.                              *)
(* Every later page is any sequence of at most MaxContLines lines.         *)
(***************************************************************************)
MaxPages == 2

MaxLines == 3

MaxSumm == 2

MaxRows == 3

MaxChainRows == 2

MaxContLines == 1

\* all sequences over S of length at most k
SeqsUpTo(S, k) == UNION {[1..m -> S] : m \in 0..k}

SegLines ==
  {LnSem1, LnSem2, LnHeader, LnRowTotal, LnWrap1, LnWrap2, LnBlank, LnMinor, LnRowLower}

SummLines == {LnEven, LnOdd, LnSem2}

RowLines == {LnRowTotal, LnWrap1, LnWrap2, LnBlank, LnHeader, LnSgpa}

ChainRowLines == {LnRowTotal, LnRowLower, LnBlank}

Tails ==
  { <<LnMinor, LnHeader, LnRowTotal>>,
    <<LnSem2, LnHeader, LnRowLower>>,
    <<LnSem2, LnHeader, LnWrap1, LnWrap2>> }

AnyPages == SeqsUpTo(SegLines, MaxLines)

SummPages ==
  { <<LnSem1>> \o summ \o <<LnHeader, LnRowTotal>> :
      summ \in SeqsUpTo(SummLines, MaxSumm) }

RowPages ==
  { <<LnSem1, LnHeader>> \o rows : rows \in SeqsUpTo(RowLines, MaxRows) }

ChainPages ==
  { <<LnSem1, LnHeader>> \o rows \o tail :
      rows \in SeqsUpTo(ChainRowLines, MaxChainRows), tail \in Tails }

FirstPages == AnyPages \cup SummPages \cup RowPages \cup ChainPages

ContPages == SeqsUpTo({LnHeader, LnRowTotal, LnSem2}, MaxContLines)

(***************************************************************************)
(* The segmenter's steps.                                                  *)
(***************************************************************************)
\* the field extractor and the row grammar check are not running
InfoIdle ==
  /\ all_lines = <<>>
  /\ found_map = EmptyMap
  /\ general_info = <<>>
  /\ line_no = 0
  /\ ipc = "idle"

RowIdle ==
  /\ txt = <<>>
  /\ cols = <<>>
  /\ first_cols = <<>>
  /\ round = 0
  /\ rpc = "idle"

SegInit ==
  /\ lines = <<>>
  /\ page_no = 0
  /\ i = 0
  /\ pc = "page"
  /\ current_summary = <<>>
  /\ table_rows = <<>>
  /\ buffer = <<>>
  /\ marksheet_blocks = <<>>

Init == SegInit /\ InfoIdle /\ RowIdle

\* the next page read without the reset of current_summary (line 241)
NextPageKeeping ==
  /\ pc = "page"
  /\ page_no < MaxPages
  /\ lines' \in (IF page_no = 0 THEN FirstPages ELSE ContPages)
  /\ page_no' = page_no + 1
  /\ i' = 0
  /\ pc' = "outer"
  /\ UNCHANGED <<info_vars, row_vars, current_summary, table_rows, buffer, marksheet_blocks>>

\* for page in pdf.pages: the next page is read, cursor and summary are reset
NextPage ==
  /\ pc = "page"
  /\ page_no < MaxPages
  /\ lines' \in (IF page_no = 0 THEN FirstPages ELSE ContPages)
  /\ page_no' = page_no + 1
  /\ i' = 0
  /\ current_summary' = <<>>
  /\ pc' = "outer"
  /\ UNCHANGED <<info_vars, row_vars, table_rows, buffer, marksheet_blocks>>

\* the page loop is exhausted: extract_marksheet_blocks returns
Finish ==
  /\ pc = "page"
  /\ pc' = "done"
  /\ UNCHANGED <<info_vars, row_vars, lines, page_no, i, current_summary,
                 table_rows, buffer, marksheet_blocks>>

\* the Semester line of the outer loop with the summary of an abandoned block
\* kept: only its Semester is replaced
OuterSemesterKeeping ==
  /\ pc = "outer"
  /\ i < Len(lines)
  /\ re_semester(line_at(i)) # <<>>
  /\ current_summary' =
       IF current_summary # <<>>
       THEN <<[current_summary[1] EXCEPT !["Semester"] = re_semester(line_at(i))[1]]>>
       ELSE <<new_summary(re_semester(line_at(i))[1])>>
  /\ i' = i + 1
  /\ pc' = "summary"
  /\ UNCHANGED <<info_vars, row_vars, lines, page_no, table_rows, buffer, marksheet_blocks>>

\* the Semester line of the outer loop with the increment of line 255 left
\* out: the summary loop is entered on the Semester line itself
OuterSemesterStaying ==
  /\ pc = "outer"
  /\ i < Len(lines)
  /\ re_semester(line_at(i)) # <<>>
  /\ current_summary' = <<new_summary(re_semester(line_at(i))[1])>>
  /\ i' = i
  /\ pc' = "summary"
  /\ UNCHANGED <<info_vars, row_vars, lines, page_no, table_rows, buffer, marksheet_blocks>>

\* outer loop, a Semester line: a fresh summary is started (lines 245-255)
OuterSemester ==
  /\ pc = "outer"
  /\ i < Len(lines)
  /\ re_semester(line_at(i)) # <<>>
  /\ current_summary' = <<new_summary(re_semester(line_at(i))[1])>>
  /\ i' = i + 1
  /\ pc' = "summary"
  /\ UNCHANGED <<info_vars, row_vars, lines, page_no, table_rows, buffer, marksheet_blocks>>

\* outer loop, any other line (line 331)
OuterSkip ==
  /\ pc = "outer"
  /\ i < Len(lines)
  /\ re_semester(line_at(i)) = <<>>
  /\ i' = i + 1
  /\ UNCHANGED <<info_vars, row_vars, lines, page_no, pc, current_summary,
                 table_rows, buffer, marksheet_blocks>>

\* outer loop, the page has no more lines
OuterEnd ==
  /\ pc = "outer"
  /\ i >= Len(lines)
  /\ pc' = "page"
  /\ UNCHANGED <<info_vars, row_vars, lines, page_no, i, current_summary,
                 table_rows, buffer, marksheet_blocks>>

\* summary loop, the table header: row collection starts (lines 259-263)
SummaryHeader ==
  /\ pc = "summary"
  /\ i < Len(lines)
  /\ header_regex(line_at(i))
  /\ i' = i + 1
  /\ table_rows' = <<>>
  /\ buffer' = <<>>
  /\ pc' = "rows"
  /\ UNCHANGED <<info_vars, row_vars, lines, page_no, current_summary, marksheet_blocks>>

\* current_summary after the capture of lines 309-322
captured(l2) ==
  IF current_summary # <<>>
  THEN <<capture_summary(current_summary[1], l2)>>
  ELSE current_summary

\* summary loop, a line that is neither the header nor a Semester line
SummaryLine ==
  /\ pc = "summary"
  /\ i < Len(lines)
  /\ ~header_regex(line_at(i))
  /\ re_semester(line_at(i)) = <<>>
  /\ current_summary' = captured(line_at(i))
  /\ i' = i + 1
  /\ UNCHANGED <<info_vars, row_vars, lines, page_no, pc, table_rows, buffer, marksheet_blocks>>

\* summary loop, a Semester line: break without advancing (lines 325-329)
SummaryBreak ==
  /\ pc = "summary"
  /\ i < Len(lines)
  /\ ~header_regex(line_at(i))
  /\ re_semester(line_at(i)) # <<>>
  /\ current_summary' = captured(line_at(i))
  /\ pc' = "outer"
  /\ UNCHANGED <<info_vars, row_vars, lines, page_no, i, table_rows, buffer, marksheet_blocks>>

\* summary loop, the page has no more lines
SummaryEnd ==
  /\ pc = "summary"
  /\ i >= Len(lines)
  /\ pc' = "outer"
  /\ UNCHANGED <<info_vars, row_vars, lines, page_no, i, current_summary,
                 table_rows, buffer, marksheet_blocks>>

\* a stop condition that also ends row collection at a line holding the word
\* "total" or "sgpa"
is_stop_total(l3) ==
  \/ re_semester(l3) # <<>>
  \/ heading_result_regex(l3)
  \/ Contains(lower(l3), <<"t","o","t","a","l">>)
  \/ Contains(lower(l3), <<"s","g","p","a">>)

\* the stop condition of row collection (line 267)
is_stop(l3) == re_semester(l3) # <<>> \/ heading_result_regex(l3)

\* the end of the row loop with the stop line consumed (i advanced past it)
LeaveRowsConsuming ==
  /\ table_rows' = flush(table_rows, buffer)
  /\ marksheet_blocks' =
       IF current_summary # <<>>
       THEN finalize_block(marksheet_blocks, current_summary[1], flush(table_rows, buffer))
       ELSE marksheet_blocks
  /\ current_summary' = <<>>
  /\ pc' = "summary"
  /\ i' = IF i < Len(lines) THEN i + 1 ELSE i
  /\ UNCHANGED <<info_vars, row_vars, lines, page_no, buffer>>

\* the end of the row loop with the summary left open after the block is
\* finalized
LeaveRowsKeeping ==
  /\ table_rows' = flush(table_rows, buffer)
  /\ marksheet_blocks' =
       IF current_summary # <<>>
       THEN finalize_block(marksheet_blocks, current_summary[1], flush(table_rows, buffer))
       ELSE marksheet_blocks
  /\ current_summary' = current_summary
  /\ pc' = "summary"
  /\ UNCHANGED <<info_vars, row_vars, lines, page_no, i, buffer>>

\* after the row loop: flush the buffer, finalize the block, continue the
\* summary loop without consuming the stop line (lines 297-307)
LeaveRows ==
  /\ table_rows' = flush(table_rows, buffer)
  /\ marksheet_blocks' =
       IF current_summary # <<>>
       THEN finalize_block(marksheet_blocks, current_summary[1], flush(table_rows, buffer))
       ELSE marksheet_blocks
  /\ current_summary' = <<>>
  /\ pc' = "summary"
  /\ UNCHANGED <<info_vars, row_vars, lines, page_no, i, buffer>>

\* row loop, a Semester line or a Minor/Major Result heading: break
RowsStop ==
  /\ pc = "rows"
  /\ i < Len(lines)
  /\ is_stop(line_at(i))
  /\ LeaveRows

\* row loop, the page has no more lines
RowsEnd ==
  /\ pc = "rows"
  /\ i >= Len(lines)
  /\ LeaveRows

\* row loop, a repeated header (lines 269-272)
RowsSkipHeader ==
  /\ pc = "rows"
  /\ i < Len(lines)
  /\ ~is_stop(line_at(i))
  /\ header_regex(line_at(i))
  /\ i' = i + 1
  /\ UNCHANGED <<info_vars, row_vars, lines, page_no, pc, current_summary,
                 table_rows, buffer, marksheet_blocks>>

\* the blank line of the row loop dropping the pending buffer
RowsSkipBlankClearing ==
  /\ pc = "rows"
  /\ i < Len(lines)
  /\ ~is_stop(line_at(i))
  /\ ~header_regex(line_at(i))
  /\ line_at(i) = <<>>
  /\ i' = i + 1
  /\ buffer' = <<>>
  /\ UNCHANGED <<info_vars, row_vars, lines, page_no, pc, current_summary,
                 table_rows, marksheet_blocks>>

\* row loop, a blank line (lines 273-276)
RowsSkipBlank ==
  /\ pc = "rows"
  /\ i < Len(lines)
  /\ ~is_stop(line_at(i))
  /\ ~header_regex(line_at(i))
  /\ line_at(i) = <<>>
  /\ i' = i + 1
  /\ UNCHANGED <<info_vars, row_vars, lines, page_no, pc, current_summary,
                 table_rows, buffer, marksheet_blocks>>

\* a line of the row loop that reaches the parse attempt of line 278
is_row_text(l3) == ~is_stop(l3) /\ ~header_regex(l3) /\ l3 # <<>>

\* row loop, buffer + line matches the row grammar (lines 278-284)
RowsParsed ==
  /\ pc = "rows"
  /\ i < Len(lines)
  /\ is_row_text(line_at(i))
  /\ parse_row_to_columns(combine(buffer, line_at(i))) # <<>>
  /\ table_rows' = Append(table_rows, parse_row_to_columns(combine(buffer, line_at(i)))[1])
  /\ buffer' = <<>>
  /\ i' = i + 1
  /\ UNCHANGED <<info_vars, row_vars, lines, page_no, pc, current_summary, marksheet_blocks>>

\* the unmatched line of the row loop with the summary capture of the summary
\* loop applied to it as well
RowsBufferedCapturing ==
  /\ pc = "rows"
  /\ i < Len(lines)
  /\ is_row_text(line_at(i))
  /\ parse_row_to_columns(combine(buffer, line_at(i))) = <<>>
  /\ IF /\ buffer # <<>>
        /\ code_start_regex(line_at(i))
        /\ parse_row_to_columns(buffer) # <<>>
     THEN /\ table_rows' = Append(table_rows, parse_row_to_columns(buffer)[1])
          /\ buffer' = line_at(i)
     ELSE /\ table_rows' = table_rows
          /\ buffer' = combine(buffer, line_at(i))
  /\ current_summary' = captured(line_at(i))
  /\ i' = i + 1
  /\ UNCHANGED <<info_vars, row_vars, lines, page_no, pc, marksheet_blocks>>

\* the unmatched line of the row loop starting the buffer afresh: the buffer
\* becomes the line alone instead of the combined text
RowsBufferedRestarting ==
  /\ pc = "rows"
  /\ i < Len(lines)
  /\ is_row_text(line_at(i))
  /\ parse_row_to_columns(combine(buffer, line_at(i))) = <<>>
  /\ IF /\ buffer # <<>>
        /\ code_start_regex(line_at(i))
        /\ parse_row_to_columns(buffer) # <<>>
     THEN /\ table_rows' = Append(table_rows, parse_row_to_columns(buffer)[1])
          /\ buffer' = line_at(i)
     ELSE /\ table_rows' = table_rows
          /\ buffer' = line_at(i)
  /\ i' = i + 1
  /\ UNCHANGED <<info_vars, row_vars, lines, page_no, pc, current_summary, marksheet_blocks>>

\* row loop, no match: the buffer alone is retried when the line starts with
\* a subject code, else the line is added to the buffer (lines 285-296)
RowsBuffered ==
  /\ pc = "rows"
  /\ i < Len(lines)
  /\ is_row_text(line_at(i))
  /\ parse_row_to_columns(combine(buffer, line_at(i))) = <<>>
  /\ IF /\ buffer # <<>>
        /\ code_start_regex(line_at(i))
        /\ parse_row_to_columns(buffer) # <<>>
     THEN /\ table_rows' = Append(table_rows, parse_row_to_columns(buffer)[1])
          /\ buffer' = line_at(i)
     ELSE /\ table_rows' = table_rows
          /\ buffer' = combine(buffer, line_at(i))
  /\ i' = i + 1
  /\ UNCHANGED <<info_vars, row_vars, lines, page_no, pc, current_summary, marksheet_blocks>>

Next ==
  \/ NextPage
  \/ Finish
  \/ OuterSemester
  \/ OuterSkip
  \/ OuterEnd
  \/ SummaryHeader
  \/ SummaryLine
  \/ SummaryBreak
  \/ SummaryEnd
  \/ RowsStop
  \/ RowsEnd
  \/ RowsSkipHeader
  \/ RowsSkipBlank
  \/ RowsParsed
  \/ RowsBuffered

Spec == Init /\ [][Next]_vars

\* A statement of the function is executed: every step of Next changes the
\* loop the scan is in or moves the cursor, and until the function has
\* returned there is such a step.
Step ==
  /\ pc # "done"
  /\ pc' \in {"page", "outer", "summary", "rows", "done"}
  /\ i' \in {0, i, i + 1}
  /\ pc' # pc \/ i' # i

\* The scan as the interpreter runs it: a single thread that keeps executing
\* statements until the function returns.
SpecFair == Init /\ [][Next]_vars /\ WF_<<pc, i>>(Step)


(***************************************************************************)
(* The field extractor as a process of its own: the first pass line by     *)
(* line, the second pass, and the assembly of general_info.  It reads the  *)
(* lines of all pages and nothing the segmenter writes.                    *)
(***************************************************************************)
MaxInfoLines == 3

InSgpaEmpty ==
  <<"S","G","P","A"," ",":">>

InSgpa ==
  <<"S","G","P","A"," ",":"," ","8",".","2","5">>

InRollNoTail ==
  <<"R","o","l","l","N","o"," ",":"," ","6","7","8"," ","X">>

InRoll ==
  <<"R","o","l","l"," ","N","o"," ",":"," ","1","2","3","4","5"," ","A","B",
    "C">>

InRollNo ==
  <<"R","o","l","l","N","o"," ",":"," ","A","7","7">>

InName ==
  <<"N","a","m","e"," ",":"," ","J","a","n","e"," ","D","o","e"," ","H","i",
    "n","d","i"," ","N","a","m","e"," ",":"," ","J","D">>

InRowTail ==
  <<"4","0"," ","5","0"," ","-","-"," ","A">>

InSession ==
  <<"F","a","t","h","e","r","'","s"," ","N","a","m","e"," ",":"," ","R","a",
    "m"," ","S","e","s","s","i","o","n"," ",":"," ","2","0","2","3"," ","R",
    "e","s","u","l","t"," ","S","t","a","t","u","s"," ",":"," ","P","A","S",
    "S">>

InGender ==
  <<"G","e","n","d","e","r"," ",":"," ","F"," ","S","e","m","e","s","t","e",
    "r"," ",":"," ","3"," ","E","v","e","n","/","O","d","d"," ",":"," ","O",
    "d","d"," ","T","o","t","a","l"," ","M","a","r","k","s"," ","O","b","t",
    "."," ",":"," ","5","1","2">>

InInstitute ==
  <<"I","n","s","t","i","t","u","t","e"," ","C","o","d","e"," ","&"," ","N",
    "a","m","e"," ",":"," ","0","5","2"," ","C","o","u","r","s","e"," ","C",
    "o","d","e"," ","&"," ","N","a","m","e"," ",":"," ","0","4"," ","B","r",
    "a","n","c","h"," ","C","o","d","e"," ","&"," ","N","a","m","e"," ",":",
    " ","1","0"," ","E","n","r","o","l","l","m","e","n","t"," ","N","o"," ",
    ":"," ","7","7">>

InfoLines ==
  { InSgpaEmpty, InSgpa, InRollNoTail, InRoll, InRollNo, InName,
    InRowTail, InSession, InGender, InInstitute }

\* the segmenter is not running
SegIdle ==
  /\ lines = <<>>
  /\ page_no = 0
  /\ i = 0
  /\ pc = "idle"
  /\ current_summary = <<>>
  /\ table_rows = <<>>
  /\ buffer = <<>>
  /\ marksheet_blocks = <<>>

InfoInit ==
  /\ all_lines \in SeqsUpTo(InfoLines, MaxInfoLines)
  /\ found_map = EmptyMap
  /\ general_info = <<>>
  /\ line_no = 0
  /\ ipc = "first"
  /\ SegIdle
  /\ RowIdle

\* one iteration of the loop of lines 81-92
FirstPassLine ==
  /\ ipc = "first"
  /\ line_no < Len(all_lines)
  /\ found_map' = first_pass_line(found_map, all_lines[line_no + 1])
  /\ line_no' = line_no + 1
  /\ UNCHANGED <<seg_vars, row_vars, all_lines, general_info, ipc>>

\* the loop of lines 81-92 is over
FirstPassEnd ==
  /\ ipc = "first"
  /\ line_no >= Len(all_lines)
  /\ ipc' = "second"
  /\ UNCHANGED <<seg_vars, row_vars, all_lines, found_map, general_info, line_no>>

\* the regex fallback of lines 113-118 over full_text
SecondPass ==
  /\ ipc = "second"
  /\ found_map' = second_pass(found_map, JoinNL(all_lines), 1)
  /\ ipc' = "build"
  /\ UNCHANGED <<seg_vars, row_vars, all_lines, general_info, line_no>>

\* post-processing and the ordered list of lines 119-155
BuildInfo ==
  /\ ipc = "build"
  /\ general_info' = build_general_info(found_map)
  /\ ipc' = "done"
  /\ UNCHANGED <<seg_vars, row_vars, all_lines, found_map, line_no>>

InfoNext ==
  \/ FirstPassLine
  \/ FirstPassEnd
  \/ SecondPass
  \/ BuildInfo

SpecInfo == InfoInit /\ [][InfoNext]_vars

(***************************************************************************)
(* The row grammar as a function of its own: a row text is parsed, the     *)
(* columns are written back as text with single spaces between them, and   *)
(* that text is parsed again, MaxRounds times.                             *)
(***************************************************************************)
MaxRounds == 2

RtCodes == { <<"C","S","E","1","0","1">>, <<"c","s","e","1","0","2">> }

RtNames ==
  { <<"M","a","t","h","s">>,
    <<"T","o","t","a","l"," "," ","Q","u","a","l","i","t","y">>,
    <<"L","a","b"," ","4","0"," ","W","o","r","k">> }

RtTypes == { <<"T","h","e","o","r","y">>, <<"c","a">>, <<"L","A","B">> }

RtInternals == { <<"4","0">>, <<"x">> }

\* what follows Internal: the optional External, Back Paper and Grade
RtRests ==
  { <<>>,
    <<" ","5","0">>,
    <<" ","-","-">>,
    <<" ","A">>,
    <<" ","5","0"," ","a","+">>,
    <<" ","5","0"," ","-","-">>,
    <<" ","-","-"," ","-","-"," ","B","+">>,
    <<" ","5","0"," ","6","0"," ","A","B">>,
    <<" ","5","0"," ","6","0"," ","7","0">>,
    <<" ","A","B","C">> }

RowTexts ==
  { pre \o code \o <<" ">> \o name \o <<" ">> \o type \o <<"\t">> \o internal \o rest :
      pre \in {<<>>, <<" ">>}, code \in RtCodes, name \in RtNames, type \in RtTypes,
      internal \in RtInternals, rest \in RtRests }

\* the 7 columns written as one text, separated by single spaces
format_row(c) == JoinSp(c)

RowInit ==
  /\ txt \in RowTexts
  /\ cols = <<>>
  /\ first_cols = <<>>
  /\ round = 0
  /\ rpc = "parse"
  /\ SegIdle
  /\ InfoIdle

\* parse_row_to_columns(txt)
RowParse ==
  /\ rpc = "parse"
  /\ cols' = parse_row_to_columns(txt)
  /\ first_cols' = IF round = 0 THEN parse_row_to_columns(txt) ELSE first_cols
  /\ rpc' = IF parse_row_to_columns(txt) = <<>> \/ round >= MaxRounds
            THEN "done" ELSE "format"
  /\ UNCHANGED <<seg_vars, info_vars, txt, round>>

\* the columns are written back as text
RowFormat ==
  /\ rpc = "format"
  /\ txt' = format_row(cols[1])
  /\ round' = round + 1
  /\ rpc' = "parse"
  /\ UNCHANGED <<seg_vars, info_vars, cols, first_cols>>

RowNext ==
  \/ RowParse
  \/ RowFormat

SpecRow == RowInit /\ [][RowNext]_vars

(***************************************************************************)
(* Properties of the block segmenter (specification Spec).                 *)
(***************************************************************************)
\* the elements of a sequence
Range(s) == {s[k] : k \in DOMAIN s}

\* the page (the first one) has been scanned to its end
PageOneDone == pc = "page" /\ page_no = 1

\* the columns expected for the catalogue's complete row lines
RowTotalCols ==
  << <<"M","E","C","3","0","1">>,
     <<"T","o","t","a","l"," ","Q","u","a","l","i","t","y"," ","M","g","m","t">>,
     <<"T","h","e","o","r","y">>,
     <<"4","0">>,
     <<"5","0">>,
     <<"-","-">>,
     <<"A">> >>

RowLowerCols ==
  << <<"c","s","e","1","0","2">>,
     <<"M","a","t","h","s">>,
     <<"C","a">>,
     <<"3","0">>,
     <<"-","-">>,
     <<"-","-">>,
     <<"-","-">> >>

\* the row of the wrapped name, with the two fragments joined by one space
RowWrapSpaced ==
  << <<"C","S","E","1","0","1">>,
     <<"D","a","t","a"," ","S","t","r","u","c","t"," ","u","r","e","s">>,
     <<"T","h","e","o","r","y">>,
     <<"4","0">>,
     <<"5","0">>,
     <<"-","-">>,
     <<"A">> >>

\* the row of the wrapped name, with the name unbroken
RowWrapUnbroken ==
  << <<"C","S","E","1","0","1">>,
     <<"D","a","t","a"," ","S","t","r","u","c","t","u","r","e","s">>,
     <<"T","h","e","o","r","y">>,
     <<"4","0">>,
     <<"5","0">>,
     <<"-","-">>,
     <<"A">> >>

\* the rows a sequence of complete row lines, blank lines and repeated
\* headers stands for
RECURSIVE ExpectedRows(_)
ExpectedRows(ls) ==
  IF ls = <<>> THEN <<>>
  ELSE (IF Head(ls) = LnRowTotal THEN <<RowTotalCols>>
        ELSE IF Head(ls) = LnRowLower THEN <<RowLowerCols>>
        ELSE <<>>) \o ExpectedRows(Tail(ls))

\* C1: every block of marksheet_blocks has at least one row, at every moment
\* of the scan and so in the returned list; a Semester line and a header
\* followed by no matchable row produce no block.
C1_EveryBlockHasRows ==
  \A b \in 1..Len(marksheet_blocks) : Len(marksheet_blocks[b].rows) >= 1

\* C1 witness: the row loop that followed "Semester : 1" and the header has
\* ended (at a stop line or at the page end) with no row, and no block exists.
C1_Witness ==
  /\ page_no = 1
  /\ pc = "summary"
  /\ i = 2
  /\ Len(lines) >= 2
  /\ lines[1] = LnSem1
  /\ lines[2] = LnHeader
  /\ current_summary = <<>>
  /\ table_rows = <<>>
  /\ marksheet_blocks = <<>>

\* the page Semester 1, header, rows A, Semester 2, header, rows B
ChainPage(A, B) == <<LnSem1, LnHeader>> \o A \o <<LnSem2, LnHeader>> \o B

\* C2: when the page is Semester 1, header, rows A (at least one row),
\* Semester 2, header, rows B, the scan of the page ends with exactly two
\* blocks: the first has Semester 1 and exactly the rows of A, the second has
\* Semester 2 and exactly the rows of B.
C2_TwoBlocksInOrder ==
  PageOneDone =>
    \A A \in SeqsUpTo(ChainRowLines, MaxChainRows) :
      \A B \in {<<LnRowLower>>} :
        (lines = ChainPage(A, B) /\ ExpectedRows(A) # <<>>) =>
          /\ Len(marksheet_blocks) = 2
          /\ marksheet_blocks[1].summary["Semester"] = <<"1">>
          /\ marksheet_blocks[1].rows = ExpectedRows(A)
          /\ marksheet_blocks[2].summary["Semester"] = <<"2">>
          /\ marksheet_blocks[2].rows = ExpectedRows(B)

\* C2 witness: such a page has been scanned and two blocks exist
C2_Witness ==
  /\ PageOneDone
  /\ lines = ChainPage(<<LnRowTotal>>, <<LnRowLower>>)
  /\ Len(marksheet_blocks) = 2

\* the page Semester 1, header, pre, "CSE101 Data Struct", "ures Theory 40 50 -- A"
WrapPage(pre) == <<LnSem1, LnHeader>> \o pre \o <<LnWrap1, LnWrap2>>

\* C3 as stated: the wrapped row is reconstructed with the unbroken Name
\* "Data Structures".
C3_UnbrokenName ==
  (PageOneDone /\ lines = WrapPage(<<>>)) =>
    /\ Len(marksheet_blocks) = 1
    /\ marksheet_blocks[1].rows = <<RowWrapUnbroken>>

\* C3 amended: the two lines are reconstructed into exactly one row, after the
\* rows of the lines before them, and its Name is the two fragments joined by
\* a single space: "Data Struct ures".
C3_NameJoinedBySpace ==
  PageOneDone =>
    \A pre \in SeqsUpTo({LnRowTotal, LnBlank, LnHeader}, MaxRows) :
      lines = WrapPage(pre) =>
        /\ Len(marksheet_blocks) = 1
        /\ marksheet_blocks[1].rows = ExpectedRows(pre) \o <<RowWrapSpaced>>

\* C3 witness: the page of the two wrapped lines has been scanned and its
\* block holds one row
C3_Witness ==
  /\ PageOneDone
  /\ lines = WrapPage(<<>>)
  /\ Len(marksheet_blocks) = 1
  /\ Len(marksheet_blocks[1].rows) = 1

\* [A-Z]{3}[0-9]{3}
CodeShape(w) ==
  /\ Len(w) = 6
  /\ \A k \in 1..3 : w[k] \in UpperSet
  /\ \A k \in 4..6 : w[k] \in DigitSet

\* C5: the Code of every row of every emitted block is three upper-case
\* letters followed by three digits.
C5_CodeIsUpperCase ==
  \A b \in 1..Len(marksheet_blocks) :
    \A r \in 1..Len(marksheet_blocks[b].rows) :
      CodeShape(marksheet_blocks[b].rows[r][1])

\* a step that leaves the row loop
LeavesRows == pc = "rows" /\ pc' # "rows"

SummPage(summ) == <<LnSem1>> \o summ \o <<LnHeader, LnRowTotal>>

\* C11: when several summary lines of a block match the Even/Odd pattern,
\* the emitted summary holds the value of the first of them.
C11_FirstMatchKept ==
  PageOneDone =>
    \A summ \in SeqsUpTo({LnEven, LnOdd}, MaxSumm) :
      (summ # <<>> /\ lines = SummPage(summ)) =>
        /\ Len(marksheet_blocks) = 1
        /\ marksheet_blocks[1].summary["Even/Odd"] =
             IF summ[1] = LnEven THEN <<"E","v","e","n">> ELSE <<"O","d","d">>

\* the page Semester 1, header, the lines rows of the row window
RowPage(rows) == <<LnSem1, LnHeader>> \o rows

\* C12: in a row window made of complete rows, blank lines and the line
\* "SGPA : 8.25" (which matches the row grammar neither alone nor joined with
\* anything), every complete row is emitted as a row of the block.
C12_JunkLineDropped ==
  PageOneDone =>
    \A rows \in SeqsUpTo({LnSgpa, LnRowTotal, LnBlank}, MaxRows) :
      (lines = RowPage(rows) /\ ExpectedRows(rows) # <<>>) =>
        /\ Len(marksheet_blocks) = 1
        /\ marksheet_blocks[1].rows = ExpectedRows(rows)

\* the Even/Odd value the last line of a sequence of Even/Odd lines holds
\* (<<>> for no line)
LastEvenOdd(ls) ==
  IF ls = <<>> THEN <<>>
  ELSE IF ls[Len(ls)] = LnEven THEN <<"E","v","e","n">> ELSE <<"O","d","d">>

\* C13: when a second Semester line comes before any header (Semester 1,
\* summary lines pre, Semester 2, summary lines post, header, one row), one
\* block is emitted, for Semester 2; its Total Marks Obt., Result Status and
\* SGPA are empty and its Even/Odd comes from post alone, never from pre or
\* from the Semester 2 line that ended the abandoned block.
C13_AbandonedSummaryDiscarded ==
  PageOneDone =>
    \A pre, post \in SeqsUpTo({LnEven, LnOdd}, MaxSumm) :
      lines = SummPage(pre \o <<LnSem2>> \o post) =>
        /\ Len(marksheet_blocks) = 1
        /\ marksheet_blocks[1].summary =
             [key \in SummaryKeys |->
                IF key = "Semester" THEN <<"2">>
                ELSE IF key = "Even/Odd" THEN LastEvenOdd(post)
                ELSE <<>>]

\* C13 witness: Even/Odd = Even was captured for Semester 1, Semester 2
\* followed before a header, and the block of Semester 2 is emitted
C13_Witness ==
  /\ PageOneDone
  /\ lines = SummPage(<<LnEven, LnSem2>>)
  /\ Len(marksheet_blocks) = 1
  /\ marksheet_blocks[1].summary["Semester"] = <<"2">>

\* a page is being scanned
Scanning == pc \in {"outer", "summary", "rows"}

\* the cursor position (0-based) of the first Semester line of the page,
\* Len(lines) when the page has none
FirstSemester ==
  LET ks == {k \in 0..(Len(lines) - 1) : re_semester(line_at(k)) # <<>>}
  IN  IF ks = {} THEN Len(lines) ELSE Min(ks)

\* C14: reading a page resets the cursor and the open summary and emits
\* nothing; until the cursor has passed the first Semester line of the page
\* the scanner is outside any block and no block is emitted, so rows and
\* headers at the top of a page are added to no block; a block still
\* collecting its summary at the page end emits nothing; a block collecting
\* rows at the page end is finalized with the rows collected since its header
\* and is then closed.
C14_PageScoped ==
  /\ [](Scanning /\ i <= FirstSemester => pc = "outer" /\ current_summary = <<>>)
  /\ [][page_no' # page_no =>
          /\ i' = 0
          /\ current_summary' = <<>>
          /\ marksheet_blocks' = marksheet_blocks]_vars
  /\ [][marksheet_blocks' # marksheet_blocks => pc = "rows" /\ i > FirstSemester]_vars
  /\ [][(pc = "summary" /\ i >= Len(lines)) => marksheet_blocks' = marksheet_blocks]_vars
  /\ [][(pc = "rows" /\ i >= Len(lines)) =>
          /\ current_summary' = <<>>
          /\ marksheet_blocks' =
               IF current_summary # <<>> /\ table_rows' # <<>>
               THEN Append(marksheet_blocks,
                           [summary |-> current_summary[1], header |-> header_cols,
                            rows |-> table_rows'])
               ELSE marksheet_blocks]_vars

\* C14 witness: the second page is a row line without a Semester line; it
\* has been scanned and the only block is the one-row block of the first page
C14_Witness ==
  /\ pc = "page"
  /\ page_no = 2
  /\ lines = <<LnRowTotal>>
  /\ Len(marksheet_blocks) = 1
  /\ marksheet_blocks[1].rows = <<RowTotalCols>>

\* C16: while rows are collected the open summary does not change; the
\* summary of the block emitted at the end of the row loop is that summary;
\* on a page Semester 1, header, row window, where the window may hold the
\* line "SGPA : 8.25", every emitted block has the summary of the Semester
\* line alone, with an empty SGPA.
C16_SummaryFrozen ==
  /\ [][pc = "rows" =>
          \/ current_summary' = current_summary
          \/ pc' = "summary" /\ current_summary' = <<>>]_vars
  /\ [][(pc = "rows" /\ marksheet_blocks' # marksheet_blocks) =>
          /\ current_summary # <<>>
          /\ Len(marksheet_blocks') = Len(marksheet_blocks) + 1
          /\ marksheet_blocks'[Len(marksheet_blocks')].summary = current_summary[1]]_vars
  /\ [](PageOneDone =>
          \A rows \in SeqsUpTo(RowLines, MaxRows) :
            lines = RowPage(rows) =>
              \A b \in 1..Len(marksheet_blocks) :
                marksheet_blocks[b].summary =
                  [key \in SummaryKeys |-> IF key = "Semester" THEN <<"1">> ELSE <<>>])

\* C16 witness: the row window held a row and then "SGPA : 8.25"; the block
\* is emitted and its SGPA is empty
C16_Witness ==
  /\ PageOneDone
  /\ lines = RowPage(<<LnRowTotal, LnSgpa>>)
  /\ Len(marksheet_blocks) = 1
  /\ marksheet_blocks[1].summary["SGPA"] = <<>>

\* the page Semester 1, header, rows, then a Minor Result heading followed by
\* a header and a row with no Semester line of their own
MinorPage(rows) == <<LnSem1, LnHeader>> \o rows \o <<LnMinor, LnHeader, LnRowTotal>>

\* the Semester lines of the page among its first k lines
SemesterLinesBefore(k) ==
  {j \in 0..(k - 1) : j < Len(lines) /\ re_semester(line_at(j)) # <<>>}

\* C17: a summary is opened only by a Semester line met by the outer loop,
\* with the number captured from that line; a block is appended at the end
\* of marksheet_blocks only while a summary is open, its Semester is the
\* number of the nearest Semester line before the cursor on the current page,
\* a table header lies between that line and the cursor, and the summary is
\* closed by the emission, so a Semester line anchors at most one block; a
\* page never yields more blocks than it has Semester lines; on the page
\* Semester 1, header, rows, Minor Result heading, header, row the second
\* header and row produce no block.
C17_AnchoredBySemesterLine ==
  /\ [][(current_summary' # <<>> /\ current_summary' # current_summary) =>
          \/ /\ pc = "outer"
             /\ i < Len(lines)
             /\ re_semester(line_at(i)) # <<>>
             /\ current_summary' = <<new_summary(re_semester(line_at(i))[1])>>
             /\ i' = i + 1
          \/ /\ pc = "summary"
             /\ current_summary # <<>>
             /\ current_summary'[1]["Semester"] = current_summary[1]["Semester"]]_vars
  /\ [][marksheet_blocks' # marksheet_blocks =>
          /\ Len(marksheet_blocks') = Len(marksheet_blocks) + 1
          /\ SubSeq(marksheet_blocks', 1, Len(marksheet_blocks)) = marksheet_blocks
          /\ current_summary # <<>>
          /\ current_summary' = <<>>
          /\ lines' = lines
          /\ \E j \in SemesterLinesBefore(i) :
               /\ re_semester(line_at(j)) =
                    <<marksheet_blocks'[Len(marksheet_blocks')].summary["Semester"]>>
               /\ \E h \in (j + 1)..(i - 1) : header_regex(line_at(h))
               /\ \A k \in (j + 1)..(i - 1) : k \notin SemesterLinesBefore(i)]_vars
  /\ [](page_no = 1 => Len(marksheet_blocks) <= Cardinality(SemesterLinesBefore(i)))
  /\ [](PageOneDone =>
          \A rows \in SeqsUpTo(ChainRowLines, MaxChainRows) :
            lines = MinorPage(rows) =>
              /\ Len(marksheet_blocks) = (IF ExpectedRows(rows) # <<>> THEN 1 ELSE 0)
              /\ \A b \in 1..Len(marksheet_blocks) :
                   /\ marksheet_blocks[b].summary["Semester"] = <<"1">>
                   /\ marksheet_blocks[b].rows = ExpectedRows(rows))

\* C17 witness: the page with a header and a row after the Minor Result
\* heading has been scanned and holds the one block of Semester 1
C17_Witness ==
  /\ PageOneDone
  /\ lines = MinorPage(<<LnRowTotal>>)
  /\ Len(marksheet_blocks) = 1
  /\ marksheet_blocks[1].summary["Semester"] = <<"1">>

\* the page Semester 1, header, "CSE101 Data Struct", sep, "ures Theory 40 50 -- A"
SplitWrapPage(sep) == <<LnSem1, LnHeader, LnWrap1, sep, LnWrap2>>

\* the cursor of the row loop is on a blank line or on a repeated header
OnSkippedLine ==
  /\ pc = "rows"
  /\ i < Len(lines)
  /\ ~is_stop(line_at(i))
  /\ line_at(i) = <<>> \/ header_regex(line_at(i))

\* C19: a step of the row loop on a blank line or on a repeated table header
\* moves the cursor by one and leaves buffer, table_rows, the open summary
\* and marksheet_blocks unchanged; when the two parts of the wrapped row are
\* separated by a blank line or by a repeated header, the page yields one
\* block whose only row is the wrapped row, its parts joined by one space.
C19_SkippedLinesKeepBuffer ==
  /\ [][OnSkippedLine =>
          /\ i' = i + 1
          /\ pc' = "rows"
          /\ buffer' = buffer
          /\ table_rows' = table_rows
          /\ current_summary' = current_summary
          /\ marksheet_blocks' = marksheet_blocks]_vars
  /\ [](PageOneDone =>
          \A sep \in {LnBlank, LnHeader} :
            lines = SplitWrapPage(sep) =>
              /\ Len(marksheet_blocks) = 1
              /\ marksheet_blocks[1].rows = <<RowWrapSpaced>>)

\* C19 witness: the wrapped row with a blank line between its parts has been
\* scanned and is the only row of the block
C19_Witness ==
  /\ PageOneDone
  /\ lines = SplitWrapPage(LnBlank)
  /\ Len(marksheet_blocks) = 1
  /\ marksheet_blocks[1].rows = <<RowWrapSpaced>>

\* the depth of the loop the scan is in
LoopDepth == CASE pc = "rows" -> 2 [] pc = "summary" -> 1 [] OTHER -> 0

\* what is left of the page: three evaluations for each line not yet passed,
\* less the loops already left at the current line
ScanMeasure == 3 * (Len(lines) - i) + LoopDepth

\* C20: every step changes the loop the scan is in or moves the cursor; while
\* a page is scanned the cursor stays within the page and never decreases;
\* every step of the scan either ends the page or decreases ScanMeasure, so a line is evaluated at most once by each of the three
\* loops before the cursor passes it; a step that leaves the cursor where it
\* is only leaves a loop; the scan of a page ends with the cursor at the end
\* of its lines; and every scan that has begun ends, the whole extraction
\* with it.
C20_ScanTerminates ==
  /\ [][pc' # pc \/ i' # i]_vars
  /\ [](Scanning => i >= 0 /\ i <= Len(lines))
  /\ [][Scanning =>
          /\ lines' = lines
          /\ i' >= i
          /\ pc' = "page" \/ (Scanning' /\ ScanMeasure' < ScanMeasure)
          /\ (i' = i /\ Scanning') => LoopDepth' < LoopDepth]_vars
  /\ [](pc = "page" => i = Len(lines))
  /\ (Scanning ~> pc = "page")
  /\ <>(pc = "done")

\* C20 witness: the page with two chained blocks, whose second Semester line
\* stops the row loop and is evaluated again by the summary loop and by the
\* outer loop, has been scanned to its end
C20_Witness ==
  /\ pc = "page"
  /\ page_no = 1
  /\ lines = ChainPage(<<LnRowTotal>>, <<LnRowLower>>)
  /\ i = Len(lines)
  /\ Len(marksheet_blocks) = 2

\* C21: the pending buffer, when it is not empty, is a text the row grammar
\* does not match; a step of the row loop that adds a row adds the row parsed
\* from the buffer combined with the current line, and empties the buffer; a
\* step on a line that starts with a subject code while the buffer is not
\* empty and the combined text does not match adds no row; the flush at the
\* end of the row loop adds no row.
C21_BufferNeverMatches ==
  /\ [](buffer # <<>> => parse_row_to_columns(buffer) = <<>>)
  /\ [][(pc = "rows" /\ table_rows' # table_rows) =>
          /\ pc' = "rows"
          /\ i < Len(lines)
          /\ is_row_text(line_at(i))
          /\ parse_row_to_columns(combine(buffer, line_at(i))) # <<>>
          /\ table_rows' =
               Append(table_rows, parse_row_to_columns(combine(buffer, line_at(i)))[1])
          /\ buffer' = <<>>]_vars
  /\ [][(/\ pc = "rows"
         /\ i < Len(lines)
         /\ is_row_text(line_at(i))
         /\ buffer # <<>>
         /\ code_start_regex(line_at(i))
         /\ parse_row_to_columns(combine(buffer, line_at(i))) = <<>>) =>
          /\ table_rows' = table_rows
          /\ buffer' = combine(buffer, line_at(i))]_vars
  /\ [][(pc = "rows" /\ pc' # "rows") =>
          /\ table_rows' = table_rows
          /\ flush(table_rows, buffer) = table_rows]_vars

\* C21 witness: after "SGPA : 8.25" the row line, which starts with a subject
\* code, met a buffer that was not empty; the row loop has ended with the
\* two lines in the buffer and no row
C21_Witness ==
  /\ PageOneDone
  /\ lines = RowPage(<<LnSgpa, LnRowTotal>>)
  /\ code_start_regex(strip(LnRowTotal))
  /\ buffer = combine(strip(LnSgpa), strip(LnRowTotal))
  /\ table_rows = <<>>

(***************************************************************************)
(* Properties of the row grammar (specification SpecRow).                  *)
(***************************************************************************)
\* the text was parsed, written back and parsed again at least once
RoundTripped == rpc \in {"format", "done"} /\ round >= 1

\* C4 as stated: the canonical text of every row that matched parses to the
\* same 7 columns, at every repetition.
C4_RoundTrip == RoundTripped => cols = first_cols

\* C4 amended: when the row has a Grade, the canonical text parses to the
\* same 7 columns at every repetition; when it has none, the canonical text
\* ends in "--" at the place of the Grade and does not match the grammar.
C4_RoundTripWithGrade ==
  RoundTripped =>
    IF first_cols[1][7] # Dashes THEN cols = first_cols ELSE cols = <<>>

\* C4 witness: a row without External and Back Paper but with a Grade came
\* back unchanged from the second round trip
C4_Witness ==
  /\ rpc = "done"
  /\ round = MaxRounds
  /\ cols = first_cols
  /\ cols[1][5] = Dashes
  /\ cols[1][6] = Dashes
  /\ cols[1][7] # Dashes

\* the seven Type values
TypeEnum ==
  { <<"T","h","e","o","r","y">>,
    <<"P","r","a","c","t","i","c","a","l">>,
    <<"C","A">>,
    <<"L","a","b">>,
    <<"P","r","o","j","e","c","t">>,
    <<"W","o","r","k","s","h","o","p">>,
    <<"T","r","a","i","n","i","n","g">> }

\* C15: the Type of every row parse_row_to_columns returns is one of Theory,
\* Practical, CA, Lab, Project, Workshop, Training.
C15_TypeInEnum == cols # <<>> => cols[1][3] \in TypeEnum

(***************************************************************************)
(* Properties of the field extractor (specification SpecInfo).             *)
(***************************************************************************)
\* the labels general_info may hold, in their fixed order
CanonicalLabels ==
  << L_InstituteCodeName, L_CourseCodeName, L_BranchCodeName, L_RollNo,
     L_EnrollmentNo, L_Name, L_HindiName, L_Gender, L_Semester, L_EvenOdd,
     L_TotalMarksObt_, L_SGPA_ >>

\* the place of a label in CanonicalLabels (0 when it is not one of them)
CanonicalPos(label) ==
  LET ks == {k \in DOMAIN CanonicalLabels : CanonicalLabels[k] = label}
  IN  IF ks = {} THEN 0 ELSE Min(ks)

\* the value general_info holds for a label (<<>> when it has no such entry)
Emitted(label) ==
  LET ks == {k \in DOMAIN general_info : general_info[k][1] = label}
  IN  IF ks = {} THEN <<>> ELSE general_info[Min(ks)][2]

\* C7: the labels of general_info are labels of the fixed list, in strictly
\* increasing position, whatever the order of the source lines; Father's
\* Name, Session and Result Status are not among them.
C7_CanonicalOrder ==
  ipc = "done" =>
    /\ \A k \in DOMAIN general_info : CanonicalPos(general_info[k][1]) > 0
    /\ \A j, k \in DOMAIN general_info :
         j < k => CanonicalPos(general_info[j][1]) < CanonicalPos(general_info[k][1])
    /\ \A k \in DOMAIN general_info :
         general_info[k][1] \notin {L_FathersName, L_Session, L_ResultStatus}

\* C7 witness: Gender and Semester were found before Name and Name before the
\* Institute, Father's Name and Session were found too, and the list is built
C7_Witness ==
  /\ ipc = "done"
  /\ all_lines = <<InGender, InSession, InInstitute>>
  /\ Get(found_map, L_FathersName) # <<>>
  /\ Get(found_map, L_Session) # <<>>
  /\ Len(general_info) >= 8

\* C8: general_info holds the entries "Total Marks Obt. :" and "SGPA :", and
\* every other entry has a non-empty value.
C8_AlwaysPresent ==
  ipc = "done" =>
    /\ \E k \in DOMAIN general_info : general_info[k][1] = L_TotalMarksObt_
    /\ \E k \in DOMAIN general_info : general_info[k][1] = L_SGPA_
    /\ \A k \in DOMAIN general_info :
         general_info[k][1] \notin {L_TotalMarksObt_, L_SGPA_} => general_info[k][2] # <<>>

\* C8 witness: a source in which no field is found gives the two entries,
\* both empty
C8_Witness ==
  /\ ipc = "done"
  /\ all_lines # <<>>
  /\ found_map = EmptyMap
  /\ general_info = << <<L_TotalMarksObt_, <<>> >>, <<L_SGPA_, <<>> >> >>

\* C9: when the source holds the line "SGPA :" and the line "SGPA : 8.25",
\* the SGPA entry of general_info has the value "8.25".
C9_SgpaFromFallback ==
  (ipc = "done" /\ InSgpaEmpty \in Range(all_lines) /\ InSgpa \in Range(all_lines)) =>
    Emitted(L_SGPA_) = <<"8",".","2","5">>

\* the longest prefix of v made of digits
LeadingDigits(v) ==
  LET ks == {k \in 0..Len(v) : \A j \in 1..k : v[j] \in DigitSet}
  IN  SubSeq(v, 1, Max(ks))

\* C10 as stated: an emitted RollNo consists of digits only.
C10_RollNoDigitsOnly ==
  ipc = "done" => \A k \in DOMAIN Emitted(L_RollNo) : Emitted(L_RollNo)[k] \in DigitSet

\* C10 amended: the emitted RollNo is the leading run of digits of the
\* captured value when that value begins with a digit, and the captured
\* value unchanged when it does not; when "Roll No : 12345 ABC" is the only
\* roll-number line of the source, the emitted RollNo is "12345".
C10_RollNoLeadingDigits ==
  ipc = "done" =>
    /\ LET v == Get(found_map, L_RollNo)
       IN  Emitted(L_RollNo) =
             IF v # <<>> /\ v[1] \in DigitSet THEN LeadingDigits(v) ELSE v
    /\ (InRoll \in Range(all_lines) /\ Range(all_lines) \cap {InRollNo, InRollNoTail} = {}) =>
         Emitted(L_RollNo) = <<"1","2","3","4","5">>

\* C10 witness: the value captured from "RollNo : 678 X" has trailing text
\* and the emitted RollNo is its leading digits
C10_Witness ==
  /\ ipc = "done"
  /\ Get(found_map, L_RollNo) = <<"6","7","8"," ","X">>
  /\ Emitted(L_RollNo) = <<"6","7","8">>

\* the line has a colon and the text before its first colon starts, in any
\* letter case, with the field's name
KeyStartsWith(raw, label) ==
  LET line == strip(raw)
      c    == Find(line, <<":">>)
  IN  /\ c > 0
      /\ startswith(lower(strip(SubSeq(line, 1, c - 1))), lower(label))

\* the text after the first colon of the line, stripped
ValueAfterColon(raw) ==
  LET line == strip(raw)
  IN  strip(SubSeq(line, Find(line, <<":">>) + 1, Len(line)))

\* the lines among the first k of the document whose key starts with the field's name
LabelLines(label, k) ==
  {j \in 1..k : j <= Len(all_lines) /\ KeyStartsWith(all_lines[j], label)}

\* the lines of the document the first pass has read
LinesRead == IF ipc = "first" THEN line_no ELSE Len(all_lines)

\* C18: during and after the first pass a canonical field is recorded exactly
\* when a line read so far has a key starting with its name, and the value
\* recorded by the first pass is the value of the first such line; a step of
\* the first pass never changes a recorded value; the second pass never
\* changes a non-empty value, so after it a field whose first labelled line
\* has a non-empty value still holds that value.
C18_FirstOccurrenceWins ==
  /\ [](ipc \in {"first", "second"} =>
          \A k \in DOMAIN target_fields_order :
            LET label == target_fields_order[k]
                hits  == LabelLines(label, LinesRead)
            IN  IF hits = {} THEN label \notin DOMAIN found_map
                ELSE /\ label \in DOMAIN found_map
                     /\ found_map[label] = ValueAfterColon(all_lines[Min(hits)]))
  /\ [][ipc = "first" =>
          \A label \in DOMAIN found_map :
            label \in DOMAIN found_map' /\ found_map'[label] = found_map[label]]_vars
  /\ [][ipc = "second" =>
          \A label \in DOMAIN found_map :
            found_map[label] # <<>> =>
              label \in DOMAIN found_map' /\ found_map'[label] = found_map[label]]_vars
  /\ [](ipc \in {"build", "done"} =>
          \A k \in DOMAIN target_fields_order :
            LET label == target_fields_order[k]
                hits  == LabelLines(label, Len(all_lines))
            IN  (hits # {} /\ ValueAfterColon(all_lines[Min(hits)]) # <<>>) =>
                  Get(found_map, label) = ValueAfterColon(all_lines[Min(hits)]))

\* C18 witness: "RollNo : A77" comes before "RollNo : 678 X"; both passes are
\* over and RollNo holds A77, though the fallback pattern matches 678
C18_Witness ==
  /\ ipc = "done"
  /\ all_lines = <<InRollNo, InRollNoTail>>
  /\ Get(found_map, L_RollNo) = <<"A","7","7">>
  /\ patterns(L_RollNo, JoinNL(all_lines)) = << <<"6","7","8">> >>

====
